---------------------------- MODULE Spec2Model ----------------------------
(***************************************************************************)
(* A model of the two automation scripts of the repository:               *)
(*                                                                         *)
(*   Utility A  .config/scripts/generate_docs_readme.py                    *)
(*              docs.yaml -> docs/README.md                                *)
(*   Utility B  .config/scripts/generate_lint_report.py                    *)
(*              lint_output.txt -> completion request -> PR comment        *)
(*                                                                         *)
(* Representation.                                                         *)
(*   - A Python dict is a TLA+ function whose DOMAIN is the set of keys    *)
(*     that are present; the empty dict is << >>.  A Python list is a      *)
(*     sequence.  The text of Utility A and the fixed text of the         *)
(*     templates are TLA+ strings.  Text that comes from outside and that  *)
(*     the code inspects character by character (str.strip, int) is a      *)
(*     sequence of code points, since it can hold any character; the       *)
(*     result of an f-string around such a text is kept as its three       *)
(*     parts << text before, the text, text after >>.                      *)
(*   - The parser accepts only ASCII inside strings, so the non-ASCII      *)
(*     characters of the templates are transliterated: an emoji is written *)
(*     as its short code (":books:"), an accented letter loses its accent  *)
(*     and a backquote is written as an apostrophe.  Nothing in the        *)
(*     scripts inspects those characters.  A write that fails part-way     *)
(*     leaves a prefix of this text, cut after any character.              *)
(*   - A value that can be None is a record with a "kind" field.           *)
(***************************************************************************)
EXTENDS Integers, Sequences, FiniteSets, TLC

VARIABLES
    \* ---- Utility A ----
    docs_yaml,   \* the file docs.yaml: missing, unreadable, malformed, or
                 \* the document it parses to
    readme,      \* the file docs/README.md: [exists, text]
    config,      \* main's local: what load_config returned
    lines,       \* generate_readme's local list of rendered lines
    pcA,         \* position of the run inside main / generate_readme
    exitA,       \* exit status of the process (-1 while it runs)
    stepsA,      \* the operations the current run has executed, in order
    faultA,      \* whether the current run met an I/O failure while writing
    startA,      \* content of docs/README.md when the current run began
    runsA,       \* how many runs have ended
    prevA,       \* the run before the current one: whether there was one
                 \* and its status
    stdoutA,     \* what the standard output of the process does with text
    \* ---- Utility B ----
    lint_file,   \* the file lint_output.txt: missing, undecodable, or
                 \* the characters its bytes decode to
    pr_env,      \* the environment variable PR_NUMBER
    lint_output, \* the module-level variable lint_output (stripped findings)
    prompt,      \* the prompt sent to the completion service
    response,    \* the content of the completion service's answer
    detailed_report, \* the stripped completion text
    comment_body,    \* the body handed to create_issue_comment
    pr_comments,     \* the comments that exist on the pull request
    requests,        \* the prompts the completion service received
    pcB,         \* position of the run in the module body
    exitB,       \* exit status of the process (-1 while it runs)
    stepsB,      \* the external operations the run has executed, in order
    failedB,     \* the operation that raised, or "none"
    stdoutB      \* what the standard output of the process does with text

varsA == <<docs_yaml, readme, config, lines, pcA, exitA, stepsA, faultA,
           startA, runsA, prevA, stdoutA>>
varsB == <<lint_file, pr_env, lint_output, prompt, response, detailed_report,
           comment_body, pr_comments, requests, pcB, exitB, stepsB, failedB,
           stdoutB>>
vars == <<docs_yaml, readme, config, lines, pcA, exitA, stepsA, faultA,
          startA, runsA, prevA, stdoutA,
          lint_file, pr_env, lint_output, prompt, response, detailed_report,
          comment_body, pr_comments, requests, pcB, exitB, stepsB, failedB,
          stdoutB>>

---------------------------------------------------------------------------
(* Bounds of the model.                                                    *)

\* longest list of section entries / quick links in a configuration
MaxEntries == 3
\* number of consecutive runs of Utility A
MaxRuns == 2
\* longest content of lint_output.txt, in characters
MaxLintLen == 3
\* longest completion text, in characters
MaxReplyLen == 2

---------------------------------------------------------------------------
(* Python values.                                                          *)

\* the empty dict {} and the empty list []
EmptyMap == << >>

\* dict.get(key, default)
Get(m, k, d) == IF k \in DOMAIN m THEN m[k] ELSE d

\* truth value of a dict or a list: false exactly when it is empty
TruthyMap(m) == DOMAIN m # {}

\* truth value of a str: false exactly when it is empty
TruthyStr(s) == s # ""

\* f"{value}" of an int
FormatInt(n) == ToString(n)

\* '\n'.join(lines)
RECURSIVE JoinLines(_)
JoinLines(ls) ==
    IF Len(ls) = 0 THEN ""
    ELSE IF Len(ls) = 1 THEN ls[1]
    ELSE ls[1] \o "\n" \o JoinLines(Tail(ls))

\* the dicts that have key k with a value of S, or do not have it
Opt(k, S) == {EmptyMap} \cup { k :> v : v \in S }

\* the lists of at most n elements of S
SeqsUpTo(S, n) == UNION { [1..k -> S] : k \in 0..n }

---------------------------------------------------------------------------
(* Utility A: the three renderers (pure functions of the configuration).   *)

DefaultTitle == "Documentation"
DefaultSrc == "./images/deco_gopher.png"
DefaultAlt == "Go Gopher Artist"
DefaultWidth == 200
DefaultHeight == 200
ImageOpen == "<div align=\"center\">"
SectionsHeading == "## :books: Documentation Sections"
QuickLinksHeading == "## :rocket: Quick Links"

\* lines 39-49: the centered image block of a truthy image_config
ImageBlock(image_config) ==
    LET caption == Get(image_config, "caption", "")
    IN  << ImageOpen,
           "  <img src=\"" \o Get(image_config, "src", DefaultSrc) \o "\" "
             \o "alt=\"" \o Get(image_config, "alt", DefaultAlt) \o "\" "
             \o "width=\""
             \o FormatInt(Get(image_config, "width", DefaultWidth)) \o "\" "
             \o "height=\""
             \o FormatInt(Get(image_config, "height", DefaultHeight)) \o "\">",
           "  <br>" >>
        \o (IF TruthyStr(caption)
              THEN << "  <em>" \o caption \o "</em>" >> ELSE << >>)
        \o << "</div>", "" >>

\* lines 36-38: the image block is emitted when show_image (default True)
\* is true and image_config is truthy
ShowsImage(styling, image_config) ==
    Get(styling, "show_image", TRUE) /\ TruthyMap(image_config)

generate_header(cfg) ==
    LET header == Get(cfg, "header", EmptyMap)
        styling == Get(cfg, "styling", EmptyMap)
        title == Get(header, "title", DefaultTitle)
        image_config == Get(header, "image", EmptyMap)
        subtitle == Get(header, "subtitle", "")
    IN  << "# " \o title, "" >>
        \o (IF ShowsImage(styling, image_config)
              THEN ImageBlock(image_config) ELSE << >>)
        \o (IF TruthyStr(subtitle) THEN << subtitle, "" >> ELSE << >>)

\* lines 76-78: the bullet of a section entry
SectionBullet(section) ==
    LET description == Get(section, "description", "")
    IN  "- [" \o Get(section, "title", "") \o "](./"
          \o Get(section, "file", "") \o ")"
          \o (IF TruthyStr(description) THEN " - " \o description ELSE "")

\* a variant of line 75 that keeps an entry having a title or a file
SectionKeptIfEither(section) ==
    TruthyStr(Get(section, "title", "")) \/ TruthyStr(Get(section, "file", ""))

\* line 75: if title and file
SectionKept(section) ==
    TruthyStr(Get(section, "title", "")) /\ TruthyStr(Get(section, "file", ""))

\* lines 70-79: the loop over the entries, from entry i on
RECURSIVE SectionLoop(_, _)
SectionLoop(sections, i) ==
    IF i > Len(sections) THEN << >>
    ELSE (IF SectionKept(sections[i])
            THEN << SectionBullet(sections[i]) >> ELSE << >>)
         \o SectionLoop(sections, i + 1)

\* a variant of line 66 that emits the heading for an empty list too
SectionsPresentAlways(sections) == TRUE

\* line 66: if sections
SectionsPresent(sections) == Len(sections) > 0

generate_sections(cfg) ==
    LET sections == Get(cfg, "sections", << >>)
    IN  IF SectionsPresent(sections)
          THEN << SectionsHeading, "" >> \o SectionLoop(sections, 1) \o << "" >>
          ELSE << >>

\* line 101: the bullet of a quick link
LinkBullet(link) ==
    "- [" \o Get(link, "title", "") \o "](" \o Get(link, "url", "") \o ")"

\* line 100: if title and url
LinkKept(link) ==
    TruthyStr(Get(link, "title", "")) /\ TruthyStr(Get(link, "url", ""))

\* lines 96-101: the loop over the links, from link i on
RECURSIVE LinkLoop(_, _)
LinkLoop(quick_links, i) ==
    IF i > Len(quick_links) THEN << >>
    ELSE (IF LinkKept(quick_links[i])
            THEN << LinkBullet(quick_links[i]) >> ELSE << >>)
         \o LinkLoop(quick_links, i + 1)

generate_quick_links(cfg) ==
    LET quick_links == Get(cfg, "quick_links", << >>)
    IN  IF Len(quick_links) > 0
          THEN << QuickLinksHeading, "" >> \o LinkLoop(quick_links, 1) \o << "" >>
          ELSE << >>

\* lines 109-118 of generate_readme: header, then sections, then quick links
RenderLines(cfg) ==
    generate_header(cfg) \o generate_sections(cfg) \o generate_quick_links(cfg)

---------------------------------------------------------------------------
(* Utility A: the files and the process.                                   *)

None == [kind |-> "None"]

\* lines 11-21, when load_config returns: the parsed document, or None
\* when the file is missing (FileNotFoundError) or malformed
\* (yaml.YAMLError); yaml.safe_load gives None for an empty document, a
\* dict for a mapping, and for any other document a value that is no dict
\* (an int, a str, a bool, a list), of which the run uses the truth value
\* only
load_config(file) ==
    CASE file.kind = "missing" -> None
      [] file.kind = "malformed" -> None
      [] file.kind = "null" -> None
      [] file.kind = "other" -> [kind |-> "other", truthy |-> file.truthy]
      [] file.kind = "dict" -> [kind |-> "dict", val |-> file.val]

\* line 138: "not config" is true of None, of the empty dict and of every
\* other falsy value (0, "", False, [])
NotConfig(c) ==
    \/ c.kind = "None"
    \/ c.kind = "dict" /\ ~TruthyMap(c.val)
    \/ c.kind = "other" /\ ~c.truthy

\* lines 17 and 20: load_config prints a message when the file is missing
\* or malformed, and prints nothing otherwise
LoadPrints(file) == file.kind \in {"missing", "malformed"}

\* lines 13-21, when load_config does not return: open or the read raises
\* an exception that is neither FileNotFoundError nor yaml.YAMLError (the
\* file is a directory, may not be read, or its bytes are no UTF-8), or
\* print() raises in one of the two except branches
LoadRaises(file, stdout) ==
    \/ file.kind = "unreadable"
    \/ LoadPrints(file) /\ stdout = "raises"

\* the ways the standard output can treat the text print() hands it: it
\* takes the text; print() raises (the encoding of the stream has no
\* emoji, or the stream is unbuffered and its device is full); or print()
\* fills the buffer and the flush at interpreter shutdown fails
StdoutModes == {"ok", "raises", "flush_fails"}

\* the status the process ends with when the script asks for status s:
\* a failed flush of printed text at shutdown turns any status into 120
ExitCode(s, printed, stdout) ==
    IF stdout = "flush_fails" /\ printed THEN 120 ELSE s

\* lines 142-146: sys.exit(1) unless generate_readme returned True
ExitStatus(success) == IF success THEN 0 ELSE 1

\* line 123: open(output_path, 'w') truncates the file
OpenedForWriting(old) == ""

\* the run ends with status s, leaving docs/README.md as r
FinishA(s, fault, r) ==
    /\ pcA' = "done"
    /\ exitA' = s
    /\ faultA' = fault
    /\ readme' = r
    /\ runsA' = runsA + 1

\* lines 137-139: load the configuration, leave with status 1 without it
MainLoad ==
    /\ pcA = "load"
    /\ ~LoadRaises(docs_yaml, stdoutA)
    /\ config' = load_config(docs_yaml)
    /\ stepsA' = Append(stepsA, "load_config")
    /\ IF NotConfig(config')
         THEN FinishA(ExitCode(1, LoadPrints(docs_yaml), stdoutA), faultA,
                      readme)
         ELSE /\ pcA' = "render"
              /\ UNCHANGED <<exitA, faultA, readme, runsA>>
    /\ UNCHANGED <<docs_yaml, lines, startA, prevA, stdoutA>>
    /\ UNCHANGED varsB

\* line 137: load_config raises; the exception leaves main uncaught with
\* nothing printed: traceback, status 1
MainLoadCrash ==
    /\ pcA = "load"
    /\ LoadRaises(docs_yaml, stdoutA)
    /\ stepsA' = Append(stepsA, "load_config")
    /\ FinishA(1, faultA, readme)
    /\ UNCHANGED <<docs_yaml, config, lines, startA, prevA, stdoutA>>
    /\ UNCHANGED varsB

\* lines 109-118: the three renderers fill lines
Render ==
    /\ pcA = "render"
    /\ config.kind = "dict"
    /\ lines' = RenderLines(config.val)
    /\ stepsA' = Append(stepsA, "render")
    /\ pcA' = "makedirs"
    /\ UNCHANGED <<docs_yaml, readme, config, exitA, faultA, startA, runsA,
                   prevA, stdoutA>>
    /\ UNCHANGED varsB

\* line 25: config.get on a truthy document that is no mapping raises
\* AttributeError, which nothing catches: traceback, status 1
RenderCrash ==
    /\ pcA = "render"
    /\ config.kind # "dict"
    /\ stepsA' = Append(stepsA, "render")
    /\ FinishA(1, faultA, readme)
    /\ UNCHANGED <<docs_yaml, config, lines, startA, prevA, stdoutA>>
    /\ UNCHANGED varsB

\* line 122: os.makedirs succeeds
MakeDirsOk ==
    /\ pcA = "makedirs"
    /\ stepsA' = Append(stepsA, "makedirs")
    /\ pcA' = "open"
    /\ UNCHANGED <<docs_yaml, readme, config, lines, exitA, faultA, startA,
                   runsA, prevA, stdoutA>>
    /\ UNCHANGED varsB

\* lines 122, 127-129, 143-144: os.makedirs raises; line 128 prints and
\* generate_readme returns False, or print() raises in its turn and the
\* exception leaves main uncaught: status 1 either way
MakeDirsFail ==
    /\ pcA = "makedirs"
    /\ stepsA' = Append(stepsA, "makedirs")
    /\ FinishA(ExitCode(ExitStatus(FALSE), TRUE, stdoutA), TRUE, readme)
    /\ UNCHANGED <<docs_yaml, config, lines, startA, prevA, stdoutA>>
    /\ UNCHANGED varsB

\* line 123: open(output_path, 'w') succeeds and truncates the file
OpenOk ==
    /\ pcA = "open"
    /\ stepsA' = Append(stepsA, "open")
    /\ readme' = [exists |-> TRUE,
                  text |-> IF readme.exists
                             THEN OpenedForWriting(readme.text) ELSE ""]
    /\ pcA' = "write"
    /\ UNCHANGED <<docs_yaml, config, lines, exitA, faultA, startA, runsA,
                   prevA, stdoutA>>
    /\ UNCHANGED varsB

\* lines 123, 127-129, 143-144: open raises (permission denied)
OpenFail ==
    /\ pcA = "open"
    /\ stepsA' = Append(stepsA, "open")
    /\ FinishA(ExitCode(ExitStatus(FALSE), TRUE, stdoutA), TRUE, readme)
    /\ UNCHANGED <<docs_yaml, config, lines, startA, prevA, stdoutA>>
    /\ UNCHANGED varsB

\* lines 124-126, 142-146: the whole text reaches the file, the two
\* messages are printed, generate_readme returns True
WriteOk ==
    /\ pcA = "write"
    /\ stdoutA # "raises"
    /\ stepsA' = Append(stepsA, "write")
    /\ FinishA(ExitCode(ExitStatus(TRUE), TRUE, stdoutA), faultA,
               [exists |-> TRUE, text |-> readme.text \o JoinLines(lines)])
    /\ UNCHANGED <<docs_yaml, config, lines, startA, prevA, stdoutA>>
    /\ UNCHANGED varsB

\* lines 124-125, 127-128: the whole text reaches the file, then print()
\* raises on line 125, inside the try; the handler's print() on line 128
\* raises too and that exception leaves main uncaught: status 1 with the
\* complete text in the file
WriteOkPrintFail ==
    /\ pcA = "write"
    /\ stdoutA = "raises"
    /\ stepsA' = Append(stepsA, "write")
    /\ FinishA(1, faultA,
               [exists |-> TRUE, text |-> readme.text \o JoinLines(lines)])
    /\ UNCHANGED <<docs_yaml, config, lines, startA, prevA, stdoutA>>
    /\ UNCHANGED varsB

\* lines 124, 127-129, 143-144: the write or the flush at close raises
\* (disk full) after the first k characters of the text reached the file,
\* for any k short of the whole text
WriteFail ==
    /\ pcA = "write"
    /\ stepsA' = Append(stepsA, "write")
    /\ \E k \in 0..(Len(JoinLines(lines)) - 1) :
         FinishA(ExitCode(ExitStatus(FALSE), TRUE, stdoutA), TRUE,
                 [exists |-> TRUE,
                  text |-> readme.text \o SubSeq(JoinLines(lines), 1, k)])
    /\ UNCHANGED <<docs_yaml, config, lines, startA, prevA, stdoutA>>
    /\ UNCHANGED varsB

\* there has been no run before the current one
NoRunBefore == [ran |-> FALSE, status |-> -1]

\* lines 148-149: the script is run again, with the same docs.yaml and
\* the same standard output
RunAgain ==
    /\ pcA = "done"
    /\ runsA < MaxRuns
    /\ pcA' = "load"
    /\ exitA' = -1
    /\ config' = None
    /\ lines' = << >>
    /\ stepsA' = << >>
    /\ faultA' = FALSE
    /\ startA' = readme
    /\ prevA' = [ran |-> TRUE, status |-> exitA]
    /\ UNCHANGED <<docs_yaml, readme, runsA, stdoutA>>
    /\ UNCHANGED varsB

\* the configurations of the runs of main
MainHeaders ==
    { EmptyMap,
      [title |-> "Guide", subtitle |-> "Sub", image |-> [src |-> "./logo.png"]] }
MainStylings == { [show_image |-> FALSE] }
MainSections ==
    { << [title |-> "Intro", file |-> "i.md", description |-> "Start"],
         [title |-> "Broken"] >> }
MainLinks == { << [title |-> "Repo", url |-> "//x.y"] >> }
MainConfigs ==
    { h @@ s @@ e @@ q : h \in Opt("header", MainHeaders),
                         s \in Opt("styling", MainStylings),
                         e \in Opt("sections", MainSections),
                         q \in Opt("quick_links", MainLinks) }

\* the states docs.yaml can be in
MainDocs ==
    { [kind |-> "missing"], [kind |-> "unreadable"], [kind |-> "malformed"],
      [kind |-> "null"] }
    \cup { [kind |-> "other", truthy |-> b] : b \in BOOLEAN }
    \cup { [kind |-> "dict", val |-> m] : m \in MainConfigs }

\* the states docs/README.md can be in before the first run
OldReadmes ==
    { [exists |-> FALSE, text |-> ""], [exists |-> TRUE, text |-> ""],
      [exists |-> TRUE, text |-> "# Old\n\nold text"] }

\* Utility B at rest
IdleB ==
    /\ lint_file = [exists |-> FALSE, decodes |-> FALSE, chars |-> << >>]
    /\ pr_env = [set |-> FALSE, chars |-> << >>]
    /\ lint_output = << >>
    /\ prompt = << >>
    /\ response = None
    /\ detailed_report = << >>
    /\ comment_body = << >>
    /\ pr_comments = << >>
    /\ requests = << >>
    /\ pcB = "idle"
    /\ exitB = -1
    /\ stepsB = << >>
    /\ failedB = "none"
    /\ stdoutB = "ok"

InitMain ==
    /\ docs_yaml \in MainDocs
    /\ readme \in OldReadmes
    /\ config = None
    /\ lines = << >>
    /\ pcA = "load"
    /\ exitA = -1
    /\ stepsA = << >>
    /\ faultA = FALSE
    /\ startA = readme
    /\ runsA = 0
    /\ prevA = NoRunBefore
    /\ stdoutA \in StdoutModes
    /\ IdleB

NextMain ==
    \/ MainLoad
    \/ MainLoadCrash
    \/ Render
    \/ RenderCrash
    \/ MakeDirsOk
    \/ MakeDirsFail
    \/ OpenOk
    \/ OpenFail
    \/ WriteOk
    \/ WriteOkPrintFail
    \/ WriteFail
    \/ RunAgain

SpecMain == InitMain /\ [][NextMain]_vars

---------------------------------------------------------------------------
(* Utility A: each renderer applied to a configuration on its own.         *)

\* header.image: any subset of its five fields
ImageMaps ==
    { a @@ b @@ c @@ d @@ e : a \in Opt("src", {"./logo.png"}),
                              b \in Opt("alt", {"Logo"}),
                              c \in Opt("width", {120}),
                              d \in Opt("height", {80}),
                              e \in Opt("caption", {"", "Cap"}) }

\* configurations that differ in header and styling
HeaderConfigs ==
    { h @@ s :
        h \in Opt("header",
                  { t @@ i @@ u : t \in Opt("title", {"", "Guide"}),
                                  i \in Opt("image", ImageMaps),
                                  u \in Opt("subtitle", {"", "Sub"}) }),
        s \in Opt("styling", Opt("show_image", BOOLEAN)) }

\* section entries: any subset of title and file, each empty or not, and
\* some entries with a description
SectionEntries ==
    { t @@ f : t \in Opt("title", {"", "A", "B"}),
               f \in Opt("file", {"", "a.md"}) }
    \cup { [title |-> "A", file |-> "a.md", description |-> "About"],
           [title |-> "B", file |-> "a.md", description |-> ""],
           [file |-> "a.md", description |-> "About"] }

\* quick links: any subset of title and url, each empty or not
LinkEntries ==
    { t @@ u : t \in Opt("title", {"", "A", "B"}),
               u \in Opt("url", {"", "https://a.b"}) }

\* Utility A's files and process at rest
IdleFilesA ==
    /\ docs_yaml = [kind |-> "missing"]
    /\ readme = [exists |-> FALSE, text |-> ""]
    /\ exitA = -1
    /\ stepsA = << >>
    /\ faultA = FALSE
    /\ startA = readme
    /\ runsA = 0
    /\ prevA = NoRunBefore
    /\ stdoutA = "ok"

InitRender ==
    /\ \/ \E m \in HeaderConfigs : config = [kind |-> "dict", val |-> m]
       \/ \E n \in 0..MaxEntries :
            \E e \in Opt("sections", [1..n -> SectionEntries]),
               q \in Opt("quick_links", { << >> }) :
              config = [kind |-> "dict", val |-> e @@ q]
       \/ \E n \in 0..MaxEntries :
            \E e \in Opt("sections", { << >> }),
               q \in Opt("quick_links", [1..n -> LinkEntries]) :
              config = [kind |-> "dict", val |-> e @@ q]
    /\ lines = << >>
    /\ pcA = "call"
    /\ IdleFilesA
    /\ IdleB

\* lines 23-57
CallHeader ==
    /\ pcA = "call"
    /\ lines' = generate_header(config.val)
    /\ pcA' = "generate_header"
    /\ UNCHANGED <<docs_yaml, readme, config, exitA, stepsA, faultA, startA,
                   runsA, prevA, stdoutA>>
    /\ UNCHANGED varsB

\* lines 59-83
CallSections ==
    /\ pcA = "call"
    /\ lines' = generate_sections(config.val)
    /\ pcA' = "generate_sections"
    /\ UNCHANGED <<docs_yaml, readme, config, exitA, stepsA, faultA, startA,
                   runsA, prevA, stdoutA>>
    /\ UNCHANGED varsB

\* lines 85-105
CallQuickLinks ==
    /\ pcA = "call"
    /\ lines' = generate_quick_links(config.val)
    /\ pcA' = "generate_quick_links"
    /\ UNCHANGED <<docs_yaml, readme, config, exitA, stepsA, faultA, startA,
                   runsA, prevA, stdoutA>>
    /\ UNCHANGED varsB

NextRender ==
    \/ CallHeader
    \/ CallSections
    \/ CallQuickLinks

SpecRender == InitRender /\ [][NextRender]_vars

---------------------------------------------------------------------------
(* Utility B: the lint-report bot.                                         *)

\* the characters str.strip() removes, as code points: the ASCII ones
\* \t \n \x0b \x0c \r \x1c \x1d \x1e \x1f and the blank, then U+0085,
\* U+00A0, U+1680, U+2000 to U+200A, U+2028, U+2029, U+202F, U+205F and
\* U+3000
Whitespace ==
    (9..13) \cup (28..32) \cup {133, 160, 5760} \cup (8192..8202)
      \cup {8232, 8233, 8239, 8287, 12288}

\* cs without its leading characters of W
RECURSIVE LStrip(_, _)
LStrip(cs, W) ==
    IF Len(cs) > 0 /\ Head(cs) \in W THEN LStrip(Tail(cs), W) ELSE cs

\* cs without its trailing characters of W
RECURSIVE RStrip(_, _)
RStrip(cs, W) ==
    IF Len(cs) > 0 /\ cs[Len(cs)] \in W
      THEN RStrip(SubSeq(cs, 1, Len(cs) - 1), W) ELSE cs

\* lines 14 and 46: str.strip()
Strip(cs) == RStrip(LStrip(cs, Whitespace), Whitespace)

\* line 13: open(..., 'r') reads with universal newlines: \r\n and a lone
\* \r both arrive as \n
RECURSIVE TranslateNewlines(_)
TranslateNewlines(cs) ==
    IF Len(cs) = 0 THEN << >>
    ELSE IF Head(cs) = 13
      THEN << 10 >>
           \o TranslateNewlines(IF Len(cs) > 1 /\ cs[2] = 10
                                  THEN Tail(Tail(cs)) ELSE Tail(cs))
      ELSE << Head(cs) >> \o TranslateNewlines(Tail(cs))

\* a variant of line 13 that reads the file with newline=''
ReadVerbatim(cs) == cs

\* line 13-14: file.read() on a file opened in text mode
ReadText(cs) == TranslateNewlines(cs)

\* lines 21-32 of the prompt: what precedes the findings
PromptHead ==
    "\nVoce e um engenheiro de software senior revisando um pull request. "
    \o "O CI executou golangci-lint e identificou os seguintes problemas de "
    \o "qualidade de codigo Go. \n\n"
    \o "Para cada problema, gere um comentario tecnico claro e objetivo, "
    \o "explicando:\n\n"
    \o "* **:mag: Descricao:** O que esta errado e por que e importante "
    \o "corrigir\n"
    \o "* **:round_pushpin: Localizacao:** Arquivo e linha onde o problema "
    \o "ocorre\n"
    \o "* **:hammer_and_wrench: Solucao:** Como corrigir, incluindo exemplos "
    \o "de codigo quando relevante\n"
    \o "* **:zap: Prioridade:** Alta/Media/Baixa baseada no impacto\n\n"
    \o "**Problemas encontrados pelo golangci-lint:**\n'''\n"

\* lines 34-37 of the prompt: what follows the findings
PromptTail ==
    "\n'''\n\n"
    \o "Formate sua resposta como uma lista numerada em markdown, agrupando "
    \o "problemas similares quando possivel. Seja conciso mas informativo.\n"

\* lines 21-37: the f-string with {lint_output} in it, as its three parts
BuildPromptText(findings) == << PromptHead, findings, PromptTail >>

CommentHeading == "### :mag: Problemas de Lint encontrados pelo CI"
SuggestionsTitle == "**:bulb: Sugestoes:**"
Suggestion1 ==
    "- Corrija os problemas apontados para garantir a qualidade e "
    \o "padronizacao do codigo."
Suggestion2 ==
    "- Execute 'make lint' localmente para validar antes de subir novas "
    \o "alteracoes."
Suggestion3 ==
    "- Use 'make lint-fix' para corrigir automaticamente alguns problemas "
    \o "de formatacao."

\* line 53: the f-string with {detailed_report} in it, as its three parts
BuildCommentBody(report) ==
    << CommentHeading \o "\n\n",
       report,
       "\n\n" \o SuggestionsTitle \o "\n\n"
         \o Suggestion1 \o "\n" \o Suggestion2 \o "\n" \o Suggestion3 >>

\* the code points of the digit zero of every script: each is followed by
\* the digits one to nine of its script (Unicode 14, category Nd)
DecimalZeros ==
    { 48, 1632, 1776, 1984, 2406, 2534, 2662, 2790, 2918, 3046, 3174, 3302,
      3430, 3558, 3664, 3792, 3872, 4160, 4240, 6112, 6160, 6470, 6608, 6784,
      6800, 6992, 7088, 7232, 7248, 42528, 43216, 43264, 43472, 43504, 43600,
      44016, 65296, 66720, 68912, 69734, 69872, 69942, 70096, 70384, 70736,
      70864, 71248, 71360, 71472, 71904, 72016, 72784, 73040, 73120, 92768,
      92864, 93008, 120782, 120792, 120802, 120812, 120822, 123200, 123632,
      125264, 130032 }

\* whether int() reads the character as a decimal digit
IsDecimalDigit(c) == \E z \in DecimalZeros : c \in z..(z + 9)

\* the whitespace int() allows around a numeral: what str.strip() removes,
\* but for \x1c to \x1f
IntWhitespace == Whitespace \ (28..31)

\* the most digits int() converts: sys.get_int_max_str_digits(), as the
\* interpreter sets it when nothing in the environment changes it
IntMaxStrDigits == 4300

\* line 51: int(PR_NUMBER) raises TypeError when the variable is not set
\* and ValueError unless its text is, between optional whitespace, an
\* optional sign followed by decimal digits, at most IntMaxStrDigits of
\* them, where a single underscore may stand between two digits
IntParses(env) ==
    /\ env.set
    /\ LET t == RStrip(LStrip(env.chars, IntWhitespace), IntWhitespace)
           d == IF Len(t) > 0 /\ Head(t) \in {43, 45} THEN Tail(t) ELSE t
       IN  /\ Len(d) > 0
           /\ Cardinality({ i \in 1..Len(d) : d[i] # 95 }) <= IntMaxStrDigits
           /\ \A i \in 1..Len(d) :
                \/ IsDecimalDigit(d[i])
                \/ /\ d[i] = 95
                   /\ 1 < i
                   /\ i < Len(d)
                   /\ IsDecimalDigit(d[i - 1])
                   /\ IsDecimalDigit(d[i + 1])

\* the run ends: status s; op names the operation that raised, or "none"
FinishB(s, op) ==
    /\ pcB' = "done"
    /\ exitB' = s
    /\ failedB' = op

\* a variant of lines 39-44 that asks again after a failure
AfterRequestFailureRetry ==
    /\ pcB' = "request"
    /\ UNCHANGED <<exitB, failedB>>

\* lines 39-44: an exception of the request propagates, status 1
AfterRequestFailure == FinishB(1, "completion")

\* lines 13-14: the file is read and stripped
ReadLint ==
    /\ pcB = "read"
    /\ lint_file.exists
    /\ lint_file.decodes
    /\ lint_output' = Strip(ReadText(lint_file.chars))
    /\ stepsB' = Append(stepsB, "read")
    /\ pcB' = "check"
    /\ UNCHANGED <<stdoutB, lint_file, pr_env, prompt, response,
                   detailed_report,
                   comment_body, pr_comments, requests, exitB, failedB>>
    /\ UNCHANGED varsA

\* line 13: open raises FileNotFoundError, which nothing catches
ReadLintMissing ==
    /\ pcB = "read"
    /\ ~lint_file.exists
    /\ stepsB' = Append(stepsB, "read")
    /\ FinishB(1, "read")
    /\ UNCHANGED <<stdoutB, lint_file, pr_env, lint_output, prompt, response,
                   detailed_report, comment_body, pr_comments, requests>>
    /\ UNCHANGED varsA

\* line 14: the bytes of the file are no text in the encoding of the
\* locale; file.read() raises UnicodeDecodeError, which nothing catches
ReadLintUndecodable ==
    /\ pcB = "read"
    /\ lint_file.exists
    /\ ~lint_file.decodes
    /\ stepsB' = Append(stepsB, "read")
    /\ FinishB(1, "read")
    /\ UNCHANGED <<stdoutB, lint_file, pr_env, lint_output, prompt, response,
                   detailed_report, comment_body, pr_comments, requests>>
    /\ UNCHANGED varsA

\* lines 17-19: nothing to report; the message is printed, exit(0)
EarlyExit ==
    /\ pcB = "check"
    /\ Len(lint_output) = 0
    /\ stdoutB = "ok"
    /\ FinishB(0, "none")
    /\ UNCHANGED <<lint_file, pr_env, lint_output, prompt, response,
                   detailed_report, comment_body, pr_comments, requests,
                   stepsB, stdoutB>>
    /\ UNCHANGED varsA

\* lines 17-19: nothing to report, and the standard output does not take
\* the message: print() raises on line 18, which nothing catches (status
\* 1), or exit(0) is reached and the flush at shutdown fails (status 120)
EarlyExitPrintFail ==
    /\ pcB = "check"
    /\ Len(lint_output) = 0
    /\ stdoutB # "ok"
    /\ FinishB(ExitCode(IF stdoutB = "raises" THEN 1 ELSE 0, TRUE, stdoutB),
               "print")
    /\ UNCHANGED <<lint_file, pr_env, lint_output, prompt, response,
                   detailed_report, comment_body, pr_comments, requests,
                   stepsB, stdoutB>>
    /\ UNCHANGED varsA

\* lines 17, 21-37: findings exist, the prompt is built
BuildPrompt ==
    /\ pcB = "check"
    /\ Len(lint_output) > 0
    /\ prompt' = BuildPromptText(lint_output)
    /\ pcB' = "request"
    /\ UNCHANGED <<stdoutB, lint_file, pr_env, lint_output, response, detailed_report,
                   comment_body, pr_comments, requests, exitB, stepsB,
                   failedB>>
    /\ UNCHANGED varsA

\* the characters of a completion text: blank, no-break space, R
ReplyChars == {32, 160, 82}

\* lines 39-46: the request is answered with a text, which is stripped
CompletionOk ==
    /\ pcB = "request"
    /\ requests' = Append(requests, prompt)
    /\ stepsB' = Append(stepsB, "completion")
    /\ \E content \in SeqsUpTo(ReplyChars, MaxReplyLen) :
         /\ response' = [kind |-> "str", chars |-> content]
         /\ detailed_report' = Strip(content)
    /\ pcB' = "get_repo"
    /\ UNCHANGED <<stdoutB, lint_file, pr_env, lint_output, prompt, comment_body,
                   pr_comments, exitB, failedB>>
    /\ UNCHANGED varsA

\* lines 39-46: the request is answered with no text (content is None);
\* None.strip() raises AttributeError, which nothing catches
CompletionWithoutText ==
    /\ pcB = "request"
    /\ requests' = Append(requests, prompt)
    /\ stepsB' = Append(stepsB, "completion")
    /\ response' = None
    /\ FinishB(1, "strip")
    /\ UNCHANGED <<stdoutB, lint_file, pr_env, lint_output, prompt, detailed_report,
                   comment_body, pr_comments>>
    /\ UNCHANGED varsA

\* lines 39-44: the request raises (network, authentication, rate limit)
CompletionFail ==
    /\ pcB = "request"
    /\ requests' = Append(requests, prompt)
    /\ stepsB' = Append(stepsB, "completion")
    /\ AfterRequestFailure
    /\ UNCHANGED <<stdoutB, lint_file, pr_env, lint_output, prompt, response,
                   detailed_report, comment_body, pr_comments>>
    /\ UNCHANGED varsA

\* lines 48-50: the repository is found
GetRepoOk ==
    /\ pcB = "get_repo"
    /\ stepsB' = Append(stepsB, "get_repo")
    /\ pcB' = "get_pull"
    /\ UNCHANGED <<stdoutB, lint_file, pr_env, lint_output, prompt, response,
                   detailed_report, comment_body, pr_comments, requests,
                   exitB, failedB>>
    /\ UNCHANGED varsA

\* line 50: get_repo raises
GetRepoFail ==
    /\ pcB = "get_repo"
    /\ stepsB' = Append(stepsB, "get_repo")
    /\ FinishB(1, "get_repo")
    /\ UNCHANGED <<stdoutB, lint_file, pr_env, lint_output, prompt, response,
                   detailed_report, comment_body, pr_comments, requests>>
    /\ UNCHANGED varsA

\* line 51: int(PR_NUMBER) raises before any lookup is made
ParsePrFail ==
    /\ pcB = "get_pull"
    /\ ~IntParses(pr_env)
    /\ FinishB(1, "int")
    /\ UNCHANGED <<stdoutB, lint_file, pr_env, lint_output, prompt, response,
                   detailed_report, comment_body, pr_comments, requests,
                   stepsB>>
    /\ UNCHANGED varsA

\* line 51: the pull request is found
GetPullOk ==
    /\ pcB = "get_pull"
    /\ IntParses(pr_env)
    /\ stepsB' = Append(stepsB, "get_pull")
    /\ pcB' = "comment"
    /\ UNCHANGED <<stdoutB, lint_file, pr_env, lint_output, prompt, response,
                   detailed_report, comment_body, pr_comments, requests,
                   exitB, failedB>>
    /\ UNCHANGED varsA

\* line 51: get_pull raises
GetPullFail ==
    /\ pcB = "get_pull"
    /\ IntParses(pr_env)
    /\ stepsB' = Append(stepsB, "get_pull")
    /\ FinishB(1, "get_pull")
    /\ UNCHANGED <<stdoutB, lint_file, pr_env, lint_output, prompt, response,
                   detailed_report, comment_body, pr_comments, requests>>
    /\ UNCHANGED varsA

\* lines 53-55: the comment is created; the script ends, status 0
CreateCommentOk ==
    /\ pcB = "comment"
    /\ comment_body' = BuildCommentBody(detailed_report)
    /\ stepsB' = Append(stepsB, "create_issue_comment")
    /\ pr_comments' = Append(pr_comments, comment_body')
    /\ FinishB(0, "none")
    /\ UNCHANGED <<stdoutB, lint_file, pr_env, lint_output, prompt, response,
                   detailed_report, requests>>
    /\ UNCHANGED varsA

\* lines 53-55: create_issue_comment raises
CreateCommentFail ==
    /\ pcB = "comment"
    /\ comment_body' = BuildCommentBody(detailed_report)
    /\ stepsB' = Append(stepsB, "create_issue_comment")
    /\ FinishB(1, "create_issue_comment")
    /\ UNCHANGED <<stdoutB, lint_file, pr_env, lint_output, prompt, response,
                   detailed_report, pr_comments, requests>>
    /\ UNCHANGED varsA

\* the characters of lint_output.txt: blank, \n, \r, \x0b, E
LintChars == {32, 10, 13, 11, 69}

\* the states lint_output.txt can be in: missing, bytes that do not
\* decode, or the characters its bytes decode to
LintFiles ==
    { [exists |-> FALSE, decodes |-> FALSE, chars |-> << >>],
      [exists |-> TRUE, decodes |-> FALSE, chars |-> << >>] }
    \cup { [exists |-> TRUE, decodes |-> TRUE, chars |-> cs] :
             cs \in SeqsUpTo(LintChars, MaxLintLen) }

\* the values PR_NUMBER can have: not set, or the text abc, 7, 7 between
\* a blank and a line break, +07, 1_0, 1__0
PrEnvs ==
    { [set |-> FALSE, chars |-> << >>] }
    \cup { [set |-> TRUE, chars |-> cs] :
             cs \in { << 97, 98, 99 >>, << 55 >>, << 32, 55, 10 >>,
                      << 43, 48, 55 >>, << 49, 95, 48 >>,
                      << 49, 95, 95, 48 >> } }

\* Utility A at rest
IdleA ==
    /\ config = None
    /\ lines = << >>
    /\ pcA = "idle"
    /\ IdleFilesA

InitBot ==
    /\ lint_file \in LintFiles
    /\ pr_env \in PrEnvs
    /\ stdoutB \in StdoutModes
    /\ lint_output = << >>
    /\ prompt = << >>
    /\ response = None
    /\ detailed_report = << >>
    /\ comment_body = << >>
    /\ pr_comments = << >>
    /\ requests = << >>
    /\ pcB = "read"
    /\ exitB = -1
    /\ stepsB = << >>
    /\ failedB = "none"
    /\ IdleA

NextBot ==
    \/ ReadLint
    \/ ReadLintMissing
    \/ ReadLintUndecodable
    \/ EarlyExit
    \/ EarlyExitPrintFail
    \/ BuildPrompt
    \/ CompletionOk
    \/ CompletionWithoutText
    \/ CompletionFail
    \/ GetRepoOk
    \/ GetRepoFail
    \/ ParsePrFail
    \/ GetPullOk
    \/ GetPullFail
    \/ CreateCommentOk
    \/ CreateCommentFail

SpecBot == InitBot /\ [][NextBot]_vars

\* the steps that wait on nothing outside the process always go on
LocalStepsB ==
    ReadLint \/ ReadLintMissing \/ ReadLintUndecodable \/ EarlyExit
      \/ EarlyExitPrintFail \/ BuildPrompt

SpecBotFair == SpecBot /\ WF_vars(LocalStepsB)

---------------------------------------------------------------------------
(* Properties of the renderers, checked under SpecRender.                  *)

\* whether line l is among ls
HasLine(ls, l) == \E i \in 1..Len(ls) : ls[i] = l

\* the lines between the blank line after a heading and the closing blank
LinesUnderHeading(ls) == IF Len(ls) < 3 THEN << >> ELSE SubSeq(ls, 3, Len(ls) - 1)

\* whether key k of entry e is present and not empty
NonEmptyField(e, k) == k \in DOMAIN e /\ e[k] # ""

ValidSection(e) == NonEmptyField(e, "title") /\ NonEmptyField(e, "file")
ValidLink(e) == NonEmptyField(e, "title") /\ NonEmptyField(e, "url")

\* the list under key k of the configuration, empty when the key is absent
ListOf(k) == IF k \in DOMAIN config.val THEN config.val[k] ELSE << >>

\* C2: the bullets generate_sections emits are exactly the entries that
\* have a non-empty title and a non-empty file, one bullet each, in the
\* order of the configuration; likewise generate_quick_links with title
\* and url.
C2_BulletsAreTheValidEntriesInOrder ==
    /\ pcA = "generate_sections" =>
         LET kept == SelectSeq(ListOf("sections"), ValidSection)
             got == LinesUnderHeading(lines)
         IN  /\ Len(got) = Len(kept)
             /\ \A i \in 1..Len(kept) : got[i] = SectionBullet(kept[i])
    /\ pcA = "generate_quick_links" =>
         LET kept == SelectSeq(ListOf("quick_links"), ValidLink)
             got == LinesUnderHeading(lines)
         IN  /\ Len(got) = Len(kept)
             /\ \A i \in 1..Len(kept) : got[i] = LinkBullet(kept[i])

\* C2 witness: three entries, the middle one without a file; the first and
\* the third are rendered, in that order.
C2_Witness ==
    /\ pcA = "generate_sections"
    /\ Len(ListOf("sections")) = 3
    /\ ValidSection(ListOf("sections")[1])
    /\ "file" \notin DOMAIN ListOf("sections")[2]
    /\ ValidSection(ListOf("sections")[3])
    /\ ListOf("sections")[1].title # ListOf("sections")[3].title
    /\ LinesUnderHeading(lines)
         = << SectionBullet(ListOf("sections")[1]),
              SectionBullet(ListOf("sections")[3]) >>

\* C3 as stated: with sections: [] and quick_links: [] neither heading is
\* emitted, and no heading is ever emitted with no bullet under it.
C3_NeverAHeadingWithoutBullets ==
    /\ pcA = "generate_sections" =>
         /\ ListOf("sections") = << >> => ~HasLine(lines, SectionsHeading)
         /\ HasLine(lines, SectionsHeading) => Len(LinesUnderHeading(lines)) > 0
    /\ pcA = "generate_quick_links" =>
         /\ ListOf("quick_links") = << >> => ~HasLine(lines, QuickLinksHeading)
         /\ HasLine(lines, QuickLinksHeading) => Len(LinesUnderHeading(lines)) > 0

\* C3 amended: each heading is emitted exactly when its list is not empty,
\* so with sections: [] and quick_links: [] neither is emitted; a heading
\* with no bullet under it is emitted exactly when the list is not empty
\* and every entry of it lacks a title or a file (a url, for a link).
C3_HeadingIffListNonEmpty ==
    /\ pcA = "generate_sections" =>
         /\ HasLine(lines, SectionsHeading) <=> ListOf("sections") # << >>
         /\ ListOf("sections") = << >> => lines = << >>
         /\ (HasLine(lines, SectionsHeading) /\ LinesUnderHeading(lines) = << >>)
              <=> /\ ListOf("sections") # << >>
                  /\ \A i \in 1..Len(ListOf("sections")) :
                       ~ValidSection(ListOf("sections")[i])
    /\ pcA = "generate_quick_links" =>
         /\ HasLine(lines, QuickLinksHeading) <=> ListOf("quick_links") # << >>
         /\ ListOf("quick_links") = << >> => lines = << >>
         /\ (HasLine(lines, QuickLinksHeading) /\ LinesUnderHeading(lines) = << >>)
              <=> /\ ListOf("quick_links") # << >>
                  /\ \A i \in 1..Len(ListOf("quick_links")) :
                       ~ValidLink(ListOf("quick_links")[i])

\* C3 witness: sections: [] and quick_links: [] are both in the
\* configuration and generate_sections has emitted nothing.
C3_Witness ==
    /\ pcA = "generate_sections"
    /\ DOMAIN config.val = {"sections", "quick_links"}
    /\ config.val["sections"] = << >>
    /\ config.val["quick_links"] = << >>
    /\ lines = << >>

\* C4 as stated: generate_header emits the image block if and only if
\* styling.show_image is true (true when absent) and the header has an
\* image entry; with show_image false there is no image block, and the
\* title heading and a present subtitle are still emitted.
C4_ImageBlockIffEnabledAndPresent ==
    pcA = "generate_header" =>
      LET header == IF "header" \in DOMAIN config.val
                      THEN config.val["header"] ELSE EmptyMap
          styling == IF "styling" \in DOMAIN config.val
                       THEN config.val["styling"] ELSE EmptyMap
          show_image == IF "show_image" \in DOMAIN styling
                          THEN styling["show_image"] ELSE TRUE
      IN  /\ HasLine(lines, ImageOpen)
               <=> (show_image /\ "image" \in DOMAIN header)
          /\ ~show_image =>
               /\ ~HasLine(lines, ImageOpen)
               /\ lines[1] = "# " \o (IF "title" \in DOMAIN header
                                        THEN header["title"] ELSE "Documentation")
               /\ NonEmptyField(header, "subtitle")
                    => HasLine(lines, header["subtitle"])

---------------------------------------------------------------------------
(* Properties of a run of Utility A, checked under SpecMain.               *)

\* the text a run that succeeds is to leave in docs/README.md
ExpectedText == JoinLines(RenderLines(docs_yaml.val))

\* whether operation op is among the steps of the current run
DidA(op) == \E i \in 1..Len(stepsA) : stepsA[i] = op

\* C1 as stated: for every configuration mapping, whichever optional keys
\* are absent, the mapping with no keys included, a run that meets no I/O
\* failure and whose messages are printed exits with status 0 and leaves the rendering of the
\* configuration in the output file; for the mapping with no keys that is
\* the default title alone.
C1_AnyMappingSucceeds ==
    (pcA = "done" /\ docs_yaml.kind = "dict" /\ ~faultA /\ stdoutA = "ok") =>
        /\ exitA = 0
        /\ readme.exists
        /\ readme.text = ExpectedText
        /\ docs_yaml.val = EmptyMap => readme.text = "# Documentation\n"

\* C7 as stated: when generate_readme is over, the destination holds its
\* complete previous content or the complete new text, never an empty or a
\* partial file, and a run that met an I/O failure has returned False
\* (status 1).
C7_WriteIsAtomic ==
    pcA = "done" =>
        /\ \/ readme = startA
           \/ /\ docs_yaml.kind = "dict"
              /\ readme = [exists |-> TRUE, text |-> ExpectedText]
        /\ faultA => exitA # 0

\* C8 as stated: a run exits with status 0 if and only if the
\* configuration was loaded and the output was written, and with status 1
\* otherwise: when docs.yaml is missing or malformed, and when the write
\* fails.  When load_config fails, nothing is rendered or written and the
\* output file is as it was.
C8_ExitStatus ==
    pcA = "done" =>
        /\ exitA \in {0, 1}
        /\ exitA = 0 <=> /\ docs_yaml.kind = "dict"
                         /\ DidA("write")
                         /\ ~faultA
        /\ exitA = 0 => readme = [exists |-> TRUE, text |-> ExpectedText]
        /\ docs_yaml.kind \in {"missing", "malformed"} =>
             /\ exitA = 1
             /\ stepsA = << "load_config" >>
             /\ lines = << >>
             /\ readme = startA
        /\ faultA => exitA = 1

\* C9 as stated, where the first run succeeded: after a run that left
\* with status 0, a second run with the same configuration leaves the
\* file with the same bytes as the first left.
C9_SecondRunChangesNothing ==
    (pcA = "done" /\ prevA.ran /\ prevA.status = 0) => readme = startA

---------------------------------------------------------------------------
(* Properties of a run of Utility B, checked under SpecBot and, for        *)
(* termination, under SpecBotFair.                                         *)

\* the characters of lint_output.txt are all whitespace (or there are none)
WhitespaceOnly ==
    /\ lint_file.exists
    /\ lint_file.decodes
    /\ \A i \in 1..Len(lint_file.chars) : lint_file.chars[i] \in Whitespace

\* what is left of cs without its leading and trailing whitespace
Trimmed(cs) ==
    LET keep == { i \in 1..Len(cs) : cs[i] \notin Whitespace }
    IN  IF keep = {} THEN << >>
        ELSE SubSeq(cs, CHOOSE i \in keep : \A j \in keep : i <= j,
                        CHOOSE i \in keep : \A j \in keep : j <= i)

\* cs with each \r\n and each other \r replaced by \n
LineEndsAsRead(cs) ==
    LET F[i \in 0..Len(cs)] ==
          IF i = 0 THEN << >>
          ELSE IF cs[i] = 10 /\ i > 1 /\ cs[i - 1] = 13 THEN F[i - 1]
          ELSE Append(F[i - 1], IF cs[i] = 13 THEN 10 ELSE cs[i])
    IN  F[Len(cs)]

\* how many times operation op is among the steps of the run
TimesB(op) == Cardinality({ i \in 1..Len(stepsB) : stepsB[i] = op })

\* no request has left the process
NoNetworkCall ==
    /\ requests = << >>
    /\ pr_comments = << >>
    /\ TimesB("completion") = 0
    /\ TimesB("get_repo") = 0
    /\ TimesB("get_pull") = 0
    /\ TimesB("create_issue_comment") = 0

\* C5 as stated: when lint_output.txt is empty or holds only whitespace,
\* the run makes no network call at any point (no completion request, no
\* repository or pull-request lookup, no comment creation), it ends, and
\* it ends with status 0.
C5_NoFindingsNoCalls ==
    /\ [](WhitespaceOnly => (NoNetworkCall /\ (pcB = "done" => exitB = 0)))
    /\ WhitespaceOnly ~> (pcB = "done" /\ exitB = 0)

\* the comment of line 53 around summary, as its three parts
ExpectedComment(summary) ==
    << "### :mag: Problemas de Lint encontrados pelo CI" \o "\n\n",
       summary,
       "\n\n" \o "**:bulb: Sugestoes:**" \o "\n\n"
         \o Suggestion1 \o "\n" \o Suggestion2 \o "\n" \o Suggestion3 >>

\* C6 as stated: whenever lint_output.txt is not empty, the finished run
\* has issued exactly one completion request, whose prompt embeds the text
\* of the file verbatim, and has created exactly one comment, whose body
\* is the heading, the summary and the three suggestions.
C6_OneRequestOneComment ==
    (pcB = "done" /\ lint_file.exists /\ Len(lint_file.chars) > 0) =>
        /\ requests = << << PromptHead, lint_file.chars, PromptTail >> >>
        /\ TimesB("create_issue_comment") = 1
        /\ Len(pr_comments) = 1
        /\ response.kind = "str"
        /\ pr_comments[1] = ExpectedComment(Trimmed(response.chars))

\* C6 amended: when lint_output.txt is not empty once its surrounding
\* whitespace is trimmed, a run issues at most one completion request and
\* at most one comment creation, every request it issues embeds the
\* findings as text mode reads them (each line end a \n), trimmed and
\* otherwise verbatim, and a run in which no step fails issues exactly one
\* of each, the comment being the heading, the trimmed summary and the
\* three suggestions.
C6_OneRequestOneCommentWhenNothingFails ==
    (lint_file.exists /\ Trimmed(lint_file.chars) # << >>) =>
        /\ Len(requests) <= 1
        /\ TimesB("create_issue_comment") <= 1
        /\ Len(pr_comments) <= 1
        /\ \A i \in 1..Len(requests) :
             requests[i]
               = << PromptHead, Trimmed(LineEndsAsRead(lint_file.chars)),
                     PromptTail >>
        /\ (pcB = "done" /\ failedB = "none") =>
             /\ exitB = 0
             /\ Len(requests) = 1
             /\ TimesB("completion") = 1
             /\ TimesB("create_issue_comment") = 1
             /\ Len(pr_comments) = 1
             /\ response.kind = "str"
             /\ pr_comments[1] = ExpectedComment(Trimmed(response.chars))
             /\ comment_body = pr_comments[1]

\* C6 witness: findings of two lines with a \r between them, and a
\* summary with a no-break space before it; the run is over, its one
\* request carried the two lines with a \n between them, and its one
\* comment, with the trimmed summary, is on the pull request.
C6_Witness ==
    /\ lint_file.exists
    /\ lint_file.chars = << 69, 13, 69 >>
    /\ response.kind = "str"
    /\ response.chars = << 160, 82 >>
    /\ pcB = "done"
    /\ exitB = 0
    /\ requests = << << PromptHead, << 69, 10, 69 >>, PromptTail >> >>
    /\ Len(pr_comments) = 1
    /\ pr_comments[1][2] = << 82 >>

\* the external operations of the script, in the order of the module body
FixedOrder ==
    << "read", "completion", "get_repo", "get_pull", "create_issue_comment" >>

\* C10: the operations happen in the fixed order, each at most once; an
\* operation that fails ends the run with a status other than 0 and is
\* the last one executed; the finished run does nothing more; a comment
\* exists only after a completion text was received, and never in a run
\* where an operation failed.
C10_FixedOrderNoRetry ==
    /\ Len(stepsB) <= Len(FixedOrder)
    /\ \A i \in 1..Len(stepsB) : stepsB[i] = FixedOrder[i]
    /\ Len(requests) = TimesB("completion")
    /\ failedB # "none" =>
         /\ pcB = "done"
         /\ exitB # 0
         /\ exitB # -1
         /\ pr_comments = << >>
         /\ failedB \notin {"strip", "int", "print"}
              => stepsB[Len(stepsB)] = failedB
         /\ failedB = "print" => stepsB = << "read" >>
         /\ failedB = "strip" => stepsB[Len(stepsB)] = "completion"
         /\ failedB = "int" => stepsB[Len(stepsB)] = "get_repo"
    /\ pcB = "done" => ~ENABLED NextBot
    /\ pr_comments # << >> =>
         /\ Len(pr_comments) = 1
         /\ stepsB = FixedOrder
         /\ response.kind = "str"
         /\ failedB = "none"

\* C10 witness: the completion request has failed; the run is over with
\* status 1 after the read and the request, and no comment exists.
C10_Witness ==
    /\ pcB = "done"
    /\ failedB = "completion"
    /\ exitB = 1
    /\ stepsB = << "read", "completion" >>
    /\ Len(requests) = 1
    /\ pr_comments = << >>

===========================================================================
